---- MODULE Spec2Model ----
(***************************************************************************)
(* Storage-adaptation layer of the nostr relay (ClickHouse backend):       *)
(*   - the filter-to-table query planner  (query.go: buildQuery)           *)
(*   - the ingestion batching worker      (insert_optimized.go:            *)
(*                                         batchInserterOptimized)         *)
(* The planner is a pure function, checked under SpecPlan, whose initial   *)
(* states draw the filter from a bounded set.  The batching worker is a    *)
(* state machine, checked under Spec.                                      *)
(***************************************************************************)
EXTENDS Integers, Sequences, FiniteSets, TLC

VARIABLES
    filter,     \* the nostr.Filter handed to buildQuery
    plan,       \* what buildQuery returned: table, query text, args
    qpc,        \* query position: "idle" | "planned" | "rows" | "returned" |
                \* "deduped"
    store,      \* what the store answers to the query: rows and fault
    cursor,     \* number of rows rows.Next() has delivered
    events,     \* queryFilter's local list of assembled events
    returned,   \* what queryFilter returned: events and error
    deduped,    \* what deduplicateEvents returned for the assembled list
    filter2,    \* a second filter, of the same shape as filter
    plan2,      \* what buildQuery returned for filter2
    batchSize,  \* s.batchSize
    batchChan,  \* s.batchChan: the buffered channel in front of the worker
    chanClosed, \* s.batchChan has been closed
    stopBatch,  \* s.stopBatch has been closed (stop signal raised)
    batchDone,  \* s.batchDone has been closed (worker completion signal)
    buffer,     \* the worker's local buffer
    pc,         \* worker position: "select" | "insert" | "done"
    after,      \* what the worker does when the running flush returns
    batches,    \* history: every batch passed to s.batchInsert, in call order
    received,   \* history: every event the worker took from batchChan
    saves,      \* history: every SaveEvent call and what it returned
    stopAt,     \* history: number of SaveEvent calls made when stop was raised
    insEvents,  \* the events handed to batchInsertOptimized
    prepared,   \* history: PrepareContext has been called
    execs,      \* history: every ExecContext call, its row and its outcome
    insRet,     \* what batchInsertOptimized returned
    insPc,      \* batchInsertOptimized position: "idle" | "loop" | "done"
    mainPc,     \* main position: "none" | "start" | "ping" | "serving" |
                \* "closing" | "exited"
    created,    \* history: clickhouse.NewStorage succeeded
    closeRan    \* history: the deferred storage.Close() has run

readVars == <<store, cursor, events, returned, deduped>>

shapeVars == <<filter2, plan2>>

planVars == <<filter, plan, qpc, readVars, shapeVars>>

ingestVars == <<batchSize, batchChan, chanClosed, stopBatch, batchDone, buffer,
                pc, after, batches, received, saves, stopAt>>

insertVars == <<insEvents, prepared, execs, insRet, insPc>>

mainVars == <<mainPc, created, closeRan>>

auxVars == <<insertVars, mainVars>>

vars == <<filter, plan, qpc, store, cursor, events, returned, deduped, filter2, plan2,
          batchSize, batchChan, chanClosed, stopBatch,
          batchDone, buffer, pc, after, batches, received, saves, stopAt,
          insEvents, prepared, execs, insRet, insPc, mainPc, created, closeRan>>

-----------------------------------------------------------------------------
(* Bounds                                                                  *)

\* longest id / author / kind / tag-value list of a filter
MaxLen == 2

\* most tag names a filter's tag map populates
MaxTagKeys == 2

\* most events submitted through SaveEvent in one run
MaxEvents == 4

\* largest configured batch size
MaxBatch == 3

\* capacity of batchChan
QueueCap == 2

\* most rows a result set holds
MaxRows == 3

\* most events in one call of batchInsertOptimized
MaxInsert == 3

-----------------------------------------------------------------------------
(* Helpers on sequences                                                    *)

RECURSIVE Join(_, _)
\* strings.Join over a list of token lists: the elements, sep between them
Join(parts, sep) ==
    IF Len(parts) = 0 THEN <<>>
    ELSE IF Len(parts) = 1 THEN parts[1]
    ELSE parts[1] \o <<sep>> \o Join(Tail(parts), sep)

RECURSIVE Concat(_)
\* the text a token list spells
Concat(toks) ==
    IF Len(toks) = 0 THEN "" ELSE toks[1] \o Concat(Tail(toks))

Range(s) == {s[i] : i \in DOMAIN s}

-----------------------------------------------------------------------------
(* Schema: the columns of each table  (001_consolidated_schema.sql)        *)

database == "nostr"

EventsTable == database \o ".events"
AuthorTable == database \o ".events_by_author"
KindTable   == database \o ".events_by_kind"
TagPTable   == database \o ".events_by_tag_p"
TagETable   == database \o ".events_by_tag_e"

CoreColumns ==
    {"id", "pubkey", "created_at", "kind", "content", "sig", "tags",
     "relay_received_at", "deleted", "version"}

TableColumns(t) ==
    IF t = EventsTable THEN
        CoreColumns \cup {"tag_e", "tag_p", "tag_a", "tag_t", "tag_d", "tag_g", "tag_r"}
    ELSE IF t = AuthorTable \/ t = KindTable THEN
        CoreColumns \cup {"tag_e", "tag_p", "tag_t", "tag_d"}
    ELSE IF t = TagPTable THEN CoreColumns \cup {"tag_p_value"}
    ELSE IF t = TagETable THEN CoreColumns \cup {"tag_e_value"}
    ELSE {}

AllColumns ==
    CoreColumns \cup {"tag_e", "tag_p", "tag_a", "tag_t", "tag_d", "tag_g", "tag_r",
                      "tag_p_value", "tag_e_value"}

-----------------------------------------------------------------------------
(* Filters                                                                 *)

TagNames == {"e", "p", "a", "t", "d", "g", "r"}

\* the tag names buildQuery looks at
PlannedTagNames == {"p", "e", "a", "t", "d"}

IdVals(n)     == [i \in 1..n |-> "id" \o ToString(i)]
AuthorVals(n) == [i \in 1..n |-> "pk" \o ToString(i)]
\* kinds are Go ints; the second one does not fit 16 bits
KindVals(n)   == [i \in 1..n |-> IF i = 2 THEN 70000 ELSE i]
TagVals(name, n) == [i \in 1..n |-> name \o "val" \o ToString(i)]

\* *nostr.Timestamp: nil, or a 64-bit value hi * 2^32 + lo with 0 <= lo < 2^32
\* (kept in two halves: TLC integers are 32 bits wide)
NoTime == [set |-> FALSE, hi |-> 0, lo |-> 0]
Time(hi, lo) == [set |-> TRUE, hi |-> hi, lo |-> lo]
TimeOpts == {NoTime, Time(0, 5), Time(1, 5)}

LimitVals == {-1, 0, 1, 10, 5000, 5001, 50000}

\* tag maps populating at most MaxTagKeys names, the populated value lists all of
\* length 1 or all of length MaxLen; an absent key reads as the empty list
TagMaps ==
    {[n \in TagNames |-> <<>>]} \cup
    {[n \in TagNames |-> IF n \in K THEN TagVals(n, k) ELSE <<>>] :
        K \in {S \in SUBSET TagNames : Cardinality(S) \in 1..MaxTagKeys},
        k \in {1, MaxLen}}

MakeFilter(ni, na, nk, tm, s, u, q, l) ==
    [IDs |-> IdVals(ni), Authors |-> AuthorVals(na), Kinds |-> KindVals(nk),
     Tags |-> tm, Since |-> s, Until |-> u, Search |-> q, Limit |-> l]

EmptyFilter ==
    [IDs |-> <<>>, Authors |-> <<>>, Kinds |-> <<>>,
     Tags |-> [n \in TagNames |-> <<>>], Since |-> NoTime, Until |-> NoTime,
     Search |-> "", Limit |-> 0]

-----------------------------------------------------------------------------
(* buildQuery  (query.go)                                                  *)

\* hard maximum and default of the row cap
MaxLimit == 5000

\* number of the tag names p, e, a, t, d with a non-empty value list
tagTypeCount(f) == Cardinality({n \in PlannedTagNames : Len(f.Tags[n]) > 0})

\* variant of the switch: the author case tested before the id case
ChooseTableAuthorFirst(f) ==
    IF Len(f.Authors) > 0 THEN AuthorTable
    ELSE IF Len(f.IDs) > 0 THEN EventsTable
    ELSE IF Len(f.Kinds) > 0 THEN KindTable
    ELSE IF tagTypeCount(f) = 1 /\ Len(f.Tags["p"]) > 0 THEN TagPTable
    ELSE IF tagTypeCount(f) = 1 /\ Len(f.Tags["e"]) > 0 THEN TagETable
    ELSE EventsTable

\* variant of the switch: the tag cases without the tagTypeCount test
ChooseTableNoCount(f) ==
    IF Len(f.IDs) > 0 THEN EventsTable
    ELSE IF Len(f.Authors) > 0 THEN AuthorTable
    ELSE IF Len(f.Kinds) > 0 THEN KindTable
    ELSE IF Len(f.Tags["p"]) > 0 THEN TagPTable
    ELSE IF Len(f.Tags["e"]) > 0 THEN TagETable
    ELSE EventsTable

\* variant of the switch: the e case missing
ChooseTableNoEView(f) ==
    IF Len(f.IDs) > 0 THEN EventsTable
    ELSE IF Len(f.Authors) > 0 THEN AuthorTable
    ELSE IF Len(f.Kinds) > 0 THEN KindTable
    ELSE IF tagTypeCount(f) = 1 /\ Len(f.Tags["p"]) > 0 THEN TagPTable
    ELSE EventsTable

\* the switch choosing the table: first matching case wins
ChooseTable(f) ==
    IF Len(f.IDs) > 0 THEN EventsTable
    ELSE IF Len(f.Authors) > 0 THEN AuthorTable
    ELSE IF Len(f.Kinds) > 0 THEN KindTable
    ELSE IF tagTypeCount(f) = 1 /\ Len(f.Tags["p"]) > 0 THEN TagPTable
    ELSE IF tagTypeCount(f) = 1 /\ Len(f.Tags["e"]) > 0 THEN TagETable
    ELSE EventsTable

\* bound parameters, tagged by their Go type
StrArg(s)   == [str |-> s]
U16Arg(k)   == [u16 |-> k % 65536]
\* uint32(t) keeps the low 32 bits
U32Arg(t)   == [u32 |-> t.lo]
SliceArg(l) == [slice |-> l]

placeholders(n) == [i \in 1..n |-> <<"?">>]

\* fmt.Sprintf("<col> IN (%s)", strings.Join(placeholders, ","))
InCond(col, n) == <<col, " IN (">> \o Join(placeholders(n), ",") \o <<")">>

\* variant of the array predicate: has (one element) for hasAny
HasCond(col) == <<"has(", col, ", ", "?", ")">>

HasAnyCond(col) == <<"hasAny(", col, ", ", "?", ")">>

\* variant of the clamp: the zero test missing
ClampLimitNoDefault(limit) == IF limit > MaxLimit THEN MaxLimit ELSE limit

\* clamp of the row cap
ClampLimit(limit) == IF limit = 0 \/ limit > MaxLimit THEN MaxLimit ELSE limit

\* variant of the conditions: the id predicate added without the length test
ConditionsIdAlways(f, table) ==
    <<  <<"deleted", " = 0">>  >>
    \o <<InCond("id", Len(f.IDs))>>
    \o (IF Len(f.Authors) > 0 THEN <<InCond("pubkey", Len(f.Authors))>> ELSE <<>>)
    \o (IF Len(f.Kinds) > 0 THEN <<InCond("kind", Len(f.Kinds))>> ELSE <<>>)
    \o (IF f.Since.set THEN << <<"created_at", " >= ", "?">> >> ELSE <<>>)
    \o (IF f.Until.set THEN << <<"created_at", " <= ", "?">> >> ELSE <<>>)
    \o (IF Len(f.Tags["e"]) > 0
        THEN IF table = TagETable
             THEN <<InCond("tag_e_value", Len(f.Tags["e"]))>>
             ELSE <<HasAnyCond("tag_e")>>
        ELSE <<>>)
    \o (IF Len(f.Tags["p"]) > 0
        THEN IF table = TagPTable
             THEN <<InCond("tag_p_value", Len(f.Tags["p"]))>>
             ELSE <<HasAnyCond("tag_p")>>
        ELSE <<>>)
    \o (IF Len(f.Tags["a"]) > 0 THEN <<HasAnyCond("tag_a")>> ELSE <<>>)
    \o (IF Len(f.Tags["t"]) > 0 THEN <<HasAnyCond("tag_t")>> ELSE <<>>)
    \o (IF Len(f.Tags["d"]) > 0 THEN <<InCond("tag_d", Len(f.Tags["d"]))>> ELSE <<>>)
    \o (IF f.Search # "" THEN << <<"hasToken(", "content", ", ", "?", ")">> >> ELSE <<>>)

\* the conditions, in the order buildQuery appends them
Conditions(f, table) ==
    <<  <<"deleted", " = 0">>  >>
    \o (IF Len(f.IDs) > 0 THEN <<InCond("id", Len(f.IDs))>> ELSE <<>>)
    \o (IF Len(f.Authors) > 0 THEN <<InCond("pubkey", Len(f.Authors))>> ELSE <<>>)
    \o (IF Len(f.Kinds) > 0 THEN <<InCond("kind", Len(f.Kinds))>> ELSE <<>>)
    \o (IF f.Since.set THEN << <<"created_at", " >= ", "?">> >> ELSE <<>>)
    \o (IF f.Until.set THEN << <<"created_at", " <= ", "?">> >> ELSE <<>>)
    \o (IF Len(f.Tags["e"]) > 0
        THEN IF table = TagETable
             THEN <<InCond("tag_e_value", Len(f.Tags["e"]))>>
             ELSE <<HasAnyCond("tag_e")>>
        ELSE <<>>)
    \o (IF Len(f.Tags["p"]) > 0
        THEN IF table = TagPTable
             THEN <<InCond("tag_p_value", Len(f.Tags["p"]))>>
             ELSE <<HasAnyCond("tag_p")>>
        ELSE <<>>)
    \o (IF Len(f.Tags["a"]) > 0 THEN <<HasAnyCond("tag_a")>> ELSE <<>>)
    \o (IF Len(f.Tags["t"]) > 0 THEN <<HasAnyCond("tag_t")>> ELSE <<>>)
    \o (IF Len(f.Tags["d"]) > 0 THEN <<InCond("tag_d", Len(f.Tags["d"]))>> ELSE <<>>)
    \o (IF f.Search # "" THEN << <<"hasToken(", "content", ", ", "?", ")">> >> ELSE <<>>)

\* the bound parameters, in the order buildQuery appends them
Args(f, table) ==
    [i \in 1..Len(f.IDs) |-> StrArg(f.IDs[i])]
    \o [i \in 1..Len(f.Authors) |-> StrArg(f.Authors[i])]
    \o [i \in 1..Len(f.Kinds) |-> U16Arg(f.Kinds[i])]
    \o (IF f.Since.set THEN <<U32Arg(f.Since)>> ELSE <<>>)
    \o (IF f.Until.set THEN <<U32Arg(f.Until)>> ELSE <<>>)
    \o (IF Len(f.Tags["e"]) > 0
        THEN IF table = TagETable
             THEN [i \in 1..Len(f.Tags["e"]) |-> StrArg(f.Tags["e"][i])]
             ELSE <<SliceArg(f.Tags["e"])>>
        ELSE <<>>)
    \o (IF Len(f.Tags["p"]) > 0
        THEN IF table = TagPTable
             THEN [i \in 1..Len(f.Tags["p"]) |-> StrArg(f.Tags["p"][i])]
             ELSE <<SliceArg(f.Tags["p"])>>
        ELSE <<>>)
    \o (IF Len(f.Tags["a"]) > 0 THEN <<SliceArg(f.Tags["a"])>> ELSE <<>>)
    \o (IF Len(f.Tags["t"]) > 0 THEN <<SliceArg(f.Tags["t"])>> ELSE <<>>)
    \o (IF Len(f.Tags["d"]) > 0
        THEN [i \in 1..Len(f.Tags["d"]) |-> StrArg(f.Tags["d"][i])]
        ELSE <<>>)
    \o (IF f.Search # "" THEN <<StrArg(f.Search)>> ELSE <<>>)

\* variant of the query text: the conditions joined with OR
QueryTokensOr(table, conditions, limit) ==
    <<"SELECT id, pubkey, created_at, kind, content, sig, ",
      "toJSONString(tags) as tags_json FROM ", table, " FINAL">>
    \o (IF Len(conditions) > 0 THEN <<" WHERE ">> \o Join(conditions, " OR ") ELSE <<>>)
    \o <<" ORDER BY created_at DESC LIMIT ", ToString(ClampLimit(limit))>>

\* the query text as a list of tokens; Concat spells it
QueryTokens(table, conditions, limit) ==
    <<"SELECT id, pubkey, created_at, kind, content, sig, ",
      "toJSONString(tags) as tags_json FROM ", table, " FINAL">>
    \o (IF Len(conditions) > 0 THEN <<" WHERE ">> \o Join(conditions, " AND ") ELSE <<>>)
    \o <<" ORDER BY created_at DESC LIMIT ", ToString(ClampLimit(limit))>>

\* variant of buildQuery: the search term spliced into the text
buildQuerySpliced(f) ==
    LET table == ChooseTable(f)
        conditions ==
            Conditions(f, table)
            \o (IF f.Search # "" THEN << <<"content", " LIKE '%", f.Search, "%'">> >> ELSE <<>>)
    IN  [table |-> table,
         conditions |-> conditions,
         tokens |-> QueryTokens(table, conditions, f.Limit),
         args |-> Args(f, table)]

buildQuery(f) ==
    LET table == ChooseTable(f)
        conditions == Conditions(f, table)
    IN  [table |-> table,
         conditions |-> conditions,
         tokens |-> QueryTokens(table, conditions, f.Limit),
         args |-> Args(f, table)]

NoPlan == [table |-> "", conditions |-> <<>>, tokens |-> <<>>, args |-> <<>>]

\* a filter of the same shape as f with every value replaced: the same fields
\* populated, the same list lengths, the same limit
Recontent(f) ==
    [IDs |-> [i \in DOMAIN f.IDs |-> "other" \o f.IDs[i]],
     Authors |-> [i \in DOMAIN f.Authors |-> "other" \o f.Authors[i]],
     Kinds |-> [i \in DOMAIN f.Kinds |-> f.Kinds[i] + 100],
     Tags |-> [n \in TagNames |-> [i \in DOMAIN f.Tags[n] |-> "' OR 1=1 --" \o f.Tags[n][i]]],
     Since |-> IF f.Since.set THEN Time(0, f.Since.lo + 1) ELSE NoTime,
     Until |-> IF f.Until.set THEN Time(0, f.Until.lo + 1) ELSE NoTime,
     Search |-> IF f.Search # "" THEN "%' OR '1'='1" ELSE "",
     Limit |-> f.Limit]

-----------------------------------------------------------------------------
(* Reading a generated query back                                          *)

\* the columns the predicates of a plan refer to
PredColumns(p) ==
    UNION {Range(p.conditions[i]) \cap AllColumns : i \in DOMAIN p.conditions}

\* the text after LIMIT
LimitText(p) == p.tokens[Len(p.tokens)]

-----------------------------------------------------------------------------
(* Result assembly  (query.go: scanEvent, deduplicateEvents)               *)

\* A JSON text is kept as its list of lexical tokens; a string literal is
\* written by its content, the empty text is the empty list.
Punctuation == {"[", "]", ",", "null"}

Numerals == {"0", "1"}

IsString(t) == t \notin Punctuation \cup Numerals

\* the tags_json payloads the store returns
ValidJSON == <<"[", "[", "e", ",", "abc", "]", ",", "[", "p", ",", "def", "]", "]">>
TruncatedJSON == <<"[", "[", "e", ",", "abc", "]">>
WrongTypeJSON == <<"[", "[", "e", ",", "1", "]", ",", "[", "p", ",", "def", "]", "]">>
EmptyJSON == <<>>

Payloads == {ValidJSON, TruncatedJSON, WrongTypeJSON, EmptyJSON}

\* the result-set rows: the identity column and the tags_json column (the other
\* columns are copied into the event unchanged)
Rows == [id : {"a", "b"}, tags_json : Payloads]

RECURSIVE RowLists(_)
\* the result sets of at most n rows
RowLists(n) ==
    IF n = 0 THEN {<<>>}
    ELSE LET shorter == RowLists(n - 1)
         IN  shorter \cup {Append(l, r) : l \in {x \in shorter : Len(x) = n - 1}, r \in Rows}

\* a store answer: the rows, and where it fails
\*   "query": QueryContext returns an error
\*   "scan":  rows.Scan fails on row number at
\*   "iter":  rows.Next() ends after at rows and rows.Err() is not nil
StoreAnswers(rows) ==
    {[rows |-> rows, fault |-> "none", at |-> 0],
     [rows |-> rows, fault |-> "query", at |-> 0]}
    \cup {[rows |-> rows, fault |-> "scan", at |-> k] : k \in 1..Len(rows)}
    \cup {[rows |-> rows, fault |-> "iter", at |-> k] : k \in 0..Len(rows)}

NoStore == [rows |-> <<>>, fault |-> "none", at |-> -1]

RECURSIVE ParseTags(_, _, _, _, _, _)
\* encoding/json decoding a text into nostr.Tags ([][]string): a syntax error
\* leaves the target untouched; a value of the wrong type is recorded, its
\* element left at the zero value, and decoding goes on
ParseTags(toks, i, st, cur, acc, bad) ==
    IF i > Len(toks)
    THEN [syntax |-> st # "end", type |-> bad, tags |-> acc]
    ELSE LET t == toks[i] IN
         CASE st = "start" /\ t = "[" ->
                  ParseTags(toks, i + 1, "outer0", cur, acc, bad)
           [] st = "start" /\ t = "null" ->
                  ParseTags(toks, i + 1, "end", cur, acc, bad)
           [] st \in {"outer0", "outerTag"} /\ t = "[" ->
                  ParseTags(toks, i + 1, "inner0", <<>>, acc, bad)
           [] st \in {"outer0", "outerNext"} /\ t = "]" ->
                  ParseTags(toks, i + 1, "end", cur, acc, bad)
           [] st = "outerNext" /\ t = "," ->
                  ParseTags(toks, i + 1, "outerTag", cur, acc, bad)
           [] st \in {"inner0", "innerStr"} /\ IsString(t) ->
                  ParseTags(toks, i + 1, "innerNext", Append(cur, t), acc, bad)
           [] st \in {"inner0", "innerStr"} /\ t \in Numerals ->
                  ParseTags(toks, i + 1, "innerNext", Append(cur, ""), acc, TRUE)
           [] st \in {"inner0", "innerNext"} /\ t = "]" ->
                  ParseTags(toks, i + 1, "outerNext", cur, Append(acc, cur), bad)
           [] st = "innerNext" /\ t = "," ->
                  ParseTags(toks, i + 1, "innerStr", cur, acc, bad)
           [] OTHER -> [syntax |-> TRUE, type |-> FALSE, tags |-> <<>>]

\* json.Unmarshal([]byte(tagsJSON), &event.Tags): the error and what the
\* target holds afterwards
Unmarshal(toks) ==
    LET r == ParseTags(toks, 1, "start", <<>>, <<>>, FALSE)
    IN  IF r.syntax THEN [err |-> TRUE, tags |-> <<>>]
        ELSE [err |-> r.type, tags |-> r.tags]

ZeroEvent == [ID |-> "", Tags |-> <<>>]

\* variant of scanEvent: a tag payload that fails to parse is an error
scanEventStrict(row, scanErr) ==
    IF scanErr # "" THEN [event |-> ZeroEvent, err |-> scanErr]
    ELSE LET r == Unmarshal(row.tags_json)
         IN  IF row.tags_json # EmptyJSON /\ r.err
             THEN [event |-> ZeroEvent, err |-> "invalid tags"]
             ELSE [event |-> [ID |-> row.id, Tags |-> r.tags], err |-> ""]

\* scanEvent: one row into one event; scanErr is what rows.Scan returned
scanEvent(row, scanErr) ==
    IF scanErr # "" THEN [event |-> ZeroEvent, err |-> scanErr]
    ELSE [event |-> [ID |-> row.id,
                     Tags |-> IF row.tags_json # EmptyJSON
                              THEN LET r == Unmarshal(row.tags_json)
                                   IN  IF r.err THEN <<>> ELSE r.tags
                              ELSE <<>>],
          err |-> ""]

\* variant of deduplicateEvents: the last occurrence of an identity is kept
deduplicateEventsKeepLast(evs) ==
    LET keep == {i \in DOMAIN evs : \A j \in DOMAIN evs : j > i => evs[j].ID # evs[i].ID}
        F[k \in 0..Len(evs)] ==
            IF k = 0 THEN <<>>
            ELSE IF k \in keep THEN Append(F[k - 1], evs[k]) ELSE F[k - 1]
    IN  F[Len(evs)]

RECURSIVE DedupLoop(_, _, _, _)
\* the range loop of deduplicateEvents, from element i on
DedupLoop(evs, i, seen, result) ==
    IF i > Len(evs) THEN result
    ELSE IF evs[i].ID \notin seen
         THEN DedupLoop(evs, i + 1, seen \cup {evs[i].ID}, Append(result, evs[i]))
         ELSE DedupLoop(evs, i + 1, seen, result)

deduplicateEvents(evs) ==
    IF Len(evs) <= 1 THEN evs ELSE DedupLoop(evs, 1, {}, <<>>)

\* queryFilter's return value; a nil error is the empty list
NoRet == [events |-> <<>>, err |-> <<"pending">>]

ReadIdle ==
    /\ store = NoStore
    /\ cursor = 0
    /\ events = <<>>
    /\ returned = NoRet
    /\ deduped = <<>>

ShapeIdle ==
    /\ filter2 = EmptyFilter
    /\ plan2 = NoPlan

\* batchInsertOptimized's return value before it returns; nil is the empty list
NoInsRet == <<"pending">>

InsertIdle ==
    /\ insEvents = <<>>
    /\ prepared = FALSE
    /\ execs = <<>>
    /\ insRet = NoInsRet
    /\ insPc = "idle"

MainIdle ==
    /\ mainPc = "none"
    /\ created = FALSE
    /\ closeRan = FALSE

AuxIdle == InsertIdle /\ MainIdle

-----------------------------------------------------------------------------
(* Planner specification                                                   *)

IngestIdle ==
    /\ batchSize = 1
    /\ batchChan = <<>>
    /\ chanClosed = FALSE
    /\ stopBatch = FALSE
    /\ batchDone = FALSE
    /\ buffer = <<>>
    /\ pc = "select"
    /\ after = "loop"
    /\ batches = <<>>
    /\ received = <<>>
    /\ saves = <<>>
    /\ stopAt = -1

InitPlan ==
    /\ \E ni \in 0..MaxLen, na \in 0..MaxLen, nk \in 0..MaxLen, tm \in TagMaps,
          s \in TimeOpts, u \in {NoTime, Time(0, 7)}, q \in {"", "bitcoin"},
          l \in LimitVals :
            filter = MakeFilter(ni, na, nk, tm, s, u, q, l)
    /\ plan = NoPlan
    /\ qpc = "idle"
    /\ ReadIdle
    /\ ShapeIdle
    /\ IngestIdle
    /\ AuxIdle

BuildQuery ==
    /\ qpc = "idle"
    /\ plan' = buildQuery(filter)
    /\ qpc' = "planned"
    /\ UNCHANGED <<filter, readVars, shapeVars, ingestVars, auxVars>>

NextPlan == BuildQuery

SpecPlan == InitPlan /\ [][NextPlan]_vars

-----------------------------------------------------------------------------
(* Two plans side by side: buildQuery on two filters of one shape          *)

\* the limits the pair of filters is planned with
ShapeLimits == {0, 10, 5001}

InitShape ==
    /\ \E ni \in 0..MaxLen, na \in 0..MaxLen, nk \in 0..MaxLen, tm \in TagMaps,
          s \in TimeOpts, u \in {NoTime, Time(0, 7)}, q \in {"", "bitcoin"},
          l \in ShapeLimits :
            /\ filter = MakeFilter(ni, na, nk, tm, s, u, q, l)
            /\ filter2 = Recontent(filter)
    /\ plan = NoPlan
    /\ plan2 = NoPlan
    /\ qpc = "idle"
    /\ ReadIdle
    /\ IngestIdle
    /\ AuxIdle

\* buildQuery on the second filter
BuildQuery2 ==
    /\ plan2 = NoPlan
    /\ plan2' = buildQuery(filter2)
    /\ UNCHANGED <<filter, plan, qpc, filter2, readVars, ingestVars, auxVars>>

NextShape ==
    \/ BuildQuery
    \/ BuildQuery2

SpecShape == InitShape /\ [][NextShape]_vars

-----------------------------------------------------------------------------
(* Query execution  (query.go: queryFilter)                                *)

\* the filters queries are run with: one per routing target that matters to
\* the error text
RowFilters ==
    {EmptyFilter,
     MakeFilter(0, 0, 0, [n \in TagNames |-> IF n = "p" THEN TagVals("p", 1) ELSE <<>>],
                NoTime, NoTime, "", 10)}

InitRows ==
    /\ filter \in RowFilters
    /\ plan = NoPlan
    /\ qpc = "idle"
    /\ \E rows \in RowLists(MaxRows) : store \in StoreAnswers(rows)
    /\ cursor = 0
    /\ events = <<>>
    /\ returned = NoRet
    /\ deduped = <<>>
    /\ ShapeIdle
    /\ IngestIdle
    /\ AuxIdle

\* s.db.QueryContext(ctx, query, args...)
QueryContext ==
    /\ qpc = "planned"
    /\ IF store.fault = "query"
       THEN /\ returned' = [events |-> <<>>,
                       err |-> <<"query failed on table ", plan.table, ": ", "store error">>]
            /\ qpc' = "returned"
       ELSE /\ qpc' = "rows"
            /\ UNCHANGED returned
    /\ UNCHANGED <<filter, plan, store, cursor, events, deduped, shapeVars, ingestVars, auxVars>>

\* rows.Next() has a row
HasNext ==
    /\ cursor < Len(store.rows)
    /\ ~(store.fault = "iter" /\ store.at = cursor)

\* one turn of the for rows.Next() loop
RowsNext ==
    /\ qpc = "rows"
    /\ HasNext
    /\ LET scanErr == IF store.fault = "scan" /\ store.at = cursor + 1
                      THEN "scan error" ELSE ""
           r == scanEvent(store.rows[cursor + 1], scanErr)
       IN  IF r.err # ""
           THEN /\ returned' = [events |-> <<>>, err |-> <<"failed to scan event: ", r.err>>]
                /\ qpc' = "returned"
                /\ UNCHANGED <<cursor, events>>
           ELSE /\ events' = Append(events, r.event)
                /\ cursor' = cursor + 1
                /\ UNCHANGED <<returned, qpc>>
    /\ UNCHANGED <<filter, plan, store, deduped, shapeVars, ingestVars, auxVars>>

\* variant of the end of the loop: the events assembled so far returned
\* together with the iteration error
RowsEndPartial ==
    /\ qpc = "rows"
    /\ ~HasNext
    /\ returned' = IF store.fault = "iter"
                   THEN [events |-> events, err |-> <<"row iteration error: ", "store error">>]
                   ELSE [events |-> events, err |-> <<>>]
    /\ qpc' = "returned"
    /\ UNCHANGED <<filter, plan, store, cursor, events, deduped, shapeVars, ingestVars, auxVars>>

\* rows.Next() returned false: rows.Err(), then the return
RowsEnd ==
    /\ qpc = "rows"
    /\ ~HasNext
    /\ returned' = IF store.fault = "iter"
              THEN [events |-> <<>>, err |-> <<"row iteration error: ", "store error">>]
              ELSE [events |-> events, err |-> <<>>]
    /\ qpc' = "returned"
    /\ UNCHANGED <<filter, plan, store, cursor, events, deduped, shapeVars, ingestVars, auxVars>>

\* deduplicateEvents applied to the assembled list
Deduplicate ==
    /\ qpc = "returned"
    /\ returned.err = <<>>
    /\ deduped' = deduplicateEvents(returned.events)
    /\ qpc' = "deduped"
    /\ UNCHANGED <<filter, plan, store, cursor, events, returned, shapeVars, ingestVars, auxVars>>

NextRows ==
    \/ BuildQuery
    \/ QueryContext
    \/ RowsNext
    \/ RowsEnd
    \/ Deduplicate

SpecRows == InitRows /\ [][NextRows]_vars

-----------------------------------------------------------------------------
(* Ingestion: SaveEvent, the stop signal and the batching worker           *)

\* events are identified by the order of their SaveEvent call: 1, 2, ...
NextEvent == Len(saves) + 1

\* variant of SaveEvent's return: the insert error swallowed
SaveReturnSwallow(ok) == "nil"

\* what SaveEvent returns after the synchronous single-row insert
SaveReturn(ok) == IF ok THEN "nil" ELSE "err"

\* SaveEvent: a non-blocking send on batchChan; when the channel is full the
\* event goes through insertEvent, whose outcome is ok
SaveEvent(ok) ==
    /\ Len(saves) < MaxEvents
    /\ ~chanClosed
    /\ IF Len(batchChan) < QueueCap
       THEN /\ batchChan' = Append(batchChan, NextEvent)
            /\ saves' = Append(saves, [ev |-> NextEvent, full |-> FALSE,
                                       insert |-> "none", ret |-> "nil"])
       ELSE /\ batchChan' = batchChan
            /\ saves' = Append(saves, [ev |-> NextEvent, full |-> TRUE,
                                       insert |-> IF ok THEN "ok" ELSE "err",
                                       ret |-> SaveReturn(ok)])
    /\ UNCHANGED <<batchSize, chanClosed, stopBatch, batchDone, buffer, pc, after,
                   batches, received, stopAt, planVars, auxVars>>

\* the owner raises the stop signal: close(s.stopBatch)
Stop ==
    /\ ~stopBatch
    /\ stopBatch' = TRUE
    /\ stopAt' = Len(saves)
    /\ UNCHANGED <<batchSize, batchChan, chanClosed, batchDone, buffer, pc, after,
                   batches, received, saves, planVars, auxVars>>

\* the owner closes the queue: close(s.batchChan)
CloseQueue ==
    /\ ~chanClosed
    /\ chanClosed' = TRUE
    /\ UNCHANGED <<batchSize, batchChan, stopBatch, batchDone, buffer, pc, after,
                   batches, received, saves, stopAt, planVars, auxVars>>

\* variant of the size test: > for >=
SizeReachedOffByOne(buf) == Len(buf) > batchSize

\* len(buffer) >= s.batchSize
SizeReached(buf) == Len(buf) >= batchSize

\* variant of the reset: a failed batch kept for the next flush
RetryOnError(buf, ok) == IF ok THEN <<>> ELSE buf

\* buffer = buffer[:0], after the store write returned (ok or not)
ResetBuffer(buf, ok) == <<>>

\* variant of flush: the store is called with an empty buffer too
FlushEmptyToo(buf, trigger, ret) ==
    /\ buffer' = buf
    /\ pc' = "insert"
    /\ after' = IF ret THEN "return" ELSE "loop"
    /\ batches' = Append(batches, [events |-> buf, trigger |-> trigger,
                                   result |-> "pending"])
    /\ UNCHANGED batchDone

\* flush() called on buffer buf from the select case `trigger`, followed by
\* `return` (ret) or by the next loop iteration.  An empty buffer makes no store
\* call; otherwise the worker enters s.batchInsert and stays there until
\* StoreReturn.
Flush(buf, trigger, ret) ==
    IF Len(buf) = 0
    THEN /\ buffer' = buf
         /\ pc' = IF ret THEN "done" ELSE "select"
         /\ batchDone' = ret
         /\ UNCHANGED <<after, batches>>
    ELSE /\ buffer' = buf
         /\ pc' = "insert"
         /\ after' = IF ret THEN "return" ELSE "loop"
         /\ batches' = Append(batches, [events |-> buf, trigger |-> trigger,
                                        result |-> "pending"])
         /\ UNCHANGED batchDone

\* variant of the stop case: return without the final flush
OnStopNoFlush ==
    /\ pc = "select"
    /\ stopBatch
    /\ pc' = "done"
    /\ batchDone' = TRUE
    /\ UNCHANGED <<buffer, after, batches, batchSize, batchChan, chanClosed,
                   stopBatch, received, saves, stopAt, planVars, auxVars>>

\* variant of the stop case: the final flush without the return
OnStopNoReturn ==
    /\ pc = "select"
    /\ stopBatch
    /\ Flush(buffer, "stop", FALSE)
    /\ UNCHANGED <<batchSize, batchChan, chanClosed, stopBatch, received, saves,
                   stopAt, planVars, auxVars>>

\* case <-s.stopBatch: flush(); return
OnStop ==
    /\ pc = "select"
    /\ stopBatch
    /\ Flush(buffer, "stop", TRUE)
    /\ UNCHANGED <<batchSize, batchChan, chanClosed, stopBatch, received, saves,
                   stopAt, planVars, auxVars>>

\* variant of the tick case: the flush run from the timer while the worker may
\* be inside a store write
OnTickConcurrent ==
    /\ pc \in {"select", "insert"}
    /\ Flush(buffer, "tick", FALSE)
    /\ UNCHANGED <<batchSize, batchChan, chanClosed, stopBatch, received, saves,
                   stopAt, planVars, auxVars>>

\* variant of the tick case: the tick flushes only a full buffer
OnTickOnlyFull ==
    /\ pc = "select"
    /\ IF SizeReached(buffer)
       THEN Flush(buffer, "tick", FALSE)
       ELSE UNCHANGED <<buffer, pc, after, batches, batchDone>>
    /\ UNCHANGED <<batchSize, batchChan, chanClosed, stopBatch, received, saves,
                   stopAt, planVars, auxVars>>

\* case <-ticker.C: flush()
OnTick ==
    /\ pc = "select"
    /\ Flush(buffer, "tick", FALSE)
    /\ UNCHANGED <<batchSize, batchChan, chanClosed, stopBatch, received, saves,
                   stopAt, planVars, auxVars>>

\* case event, ok := <-s.batchChan with ok: append, flush at the size threshold
OnRecv ==
    /\ pc = "select"
    /\ Len(batchChan) > 0
    /\ LET buf == Append(buffer, Head(batchChan))
       IN  /\ batchChan' = Tail(batchChan)
           /\ received' = Append(received, Head(batchChan))
           /\ IF SizeReached(buf)
              THEN Flush(buf, "size", FALSE)
              ELSE /\ buffer' = buf
                   /\ UNCHANGED <<pc, after, batches, batchDone>>
    /\ UNCHANGED <<batchSize, chanClosed, stopBatch, saves, stopAt, planVars, auxVars>>

\* variant of the closed case: return without the flush
OnClosedNoFlush ==
    /\ pc = "select"
    /\ chanClosed
    /\ Len(batchChan) = 0
    /\ pc' = "done"
    /\ batchDone' = TRUE
    /\ UNCHANGED <<buffer, after, batches, batchSize, batchChan, chanClosed,
                   stopBatch, received, saves, stopAt, planVars, auxVars>>

\* case event, ok := <-s.batchChan with !ok (closed and drained): flush(); return
OnClosed ==
    /\ pc = "select"
    /\ chanClosed
    /\ Len(batchChan) = 0
    /\ Flush(buffer, "closed", TRUE)
    /\ UNCHANGED <<batchSize, batchChan, chanClosed, stopBatch, received, saves,
                   stopAt, planVars, auxVars>>

\* variant of the return from the store: an error ends the worker
StoreReturnFatal(ok) ==
    /\ pc = "insert"
    /\ batches' = [batches EXCEPT ![Len(batches)].result = IF ok THEN "ok" ELSE "err"]
    /\ buffer' = <<>>
    /\ pc' = IF after = "return" \/ ~ok THEN "done" ELSE "select"
    /\ batchDone' = (after = "return" \/ ~ok)
    /\ after' = "loop"
    /\ UNCHANGED <<batchSize, batchChan, chanClosed, stopBatch, received, saves,
                   stopAt, planVars, auxVars>>

\* s.batchInsert returns (ok or error): log, reset the buffer, then return from
\* the worker (deferred close(s.batchDone)) or go back to the select
StoreReturn(ok) ==
    /\ pc = "insert"
    /\ batches' = [batches EXCEPT ![Len(batches)].result = IF ok THEN "ok" ELSE "err"]
    /\ buffer' = ResetBuffer(buffer, ok)
    /\ pc' = IF after = "return" THEN "done" ELSE "select"
    /\ batchDone' = (after = "return")
    /\ after' = "loop"
    /\ UNCHANGED <<batchSize, batchChan, chanClosed, stopBatch, received, saves,
                   stopAt, planVars, auxVars>>

Init ==
    /\ batchSize \in 1..MaxBatch
    /\ batchChan = <<>>
    /\ chanClosed = FALSE
    /\ stopBatch = FALSE
    /\ batchDone = FALSE
    /\ buffer = <<>>
    /\ pc = "select"
    /\ after = "loop"
    /\ batches = <<>>
    /\ received = <<>>
    /\ saves = <<>>
    /\ stopAt = -1
    /\ filter = EmptyFilter
    /\ plan = NoPlan
    /\ qpc = "idle"
    /\ ReadIdle
    /\ ShapeIdle
    /\ AuxIdle

Next ==
    \/ \E ok \in BOOLEAN : SaveEvent(ok)
    \/ Stop
    \/ CloseQueue
    \/ OnStop
    \/ OnTick
    \/ OnRecv
    \/ OnClosed
    \/ \E ok \in BOOLEAN : StoreReturn(ok)

Spec == Init /\ [][Next]_vars

\* the select picks among its ready cases at random, so a case that stays
\* ready again and again is eventually taken; every store write returns
SpecStop ==
    /\ Init /\ [][Next]_vars
    /\ SF_vars(OnStop)
    /\ WF_vars(\E ok \in BOOLEAN : StoreReturn(ok))

-----------------------------------------------------------------------------
(* Tag extraction and the multi-row write  (insert_optimized.go:           *)
(* batchInsertOptimized; extractAllTags after the TagExtractor contract)    *)

\* the tag names projected into an array column
ArrayTags == {"e", "p", "a", "t", "g", "r"}

\* the extracted set of an event without tags; d is the singular projection
NoTags ==
    [tagsArray |-> <<>>, e |-> <<>>, p |-> <<>>, a |-> <<>>, t |-> <<>>,
     d |-> "", g |-> <<>>, r |-> <<>>]

\* variant of the extraction: an entry without a value dropped from the full
\* array as well
extractAllTagsDropMalformed(tags) ==
    LET F[k \in 0..Len(tags)] ==
            IF k = 0 THEN NoTags
            ELSE LET tag == tags[k]
                     x == F[k - 1]
                     y == [x EXCEPT !.tagsArray = Append(@, tag)]
                 IN  IF Len(tag) < 2 THEN x
                     ELSE IF tag[1] = "d" THEN [y EXCEPT !.d = tag[2]]
                     ELSE IF tag[1] \in ArrayTags
                          THEN [y EXCEPT ![tag[1]] = Append(@, tag[2])]
                          ELSE y
    IN  F[Len(tags)]

RECURSIVE ExtractLoop(_, _, _)
\* the single pass over the tag list, from entry i on: every entry is copied to
\* the full array; an entry with a recognized name and a value adds the value
\* to that name's projection (for d the last value wins)
ExtractLoop(tags, i, x) ==
    IF i > Len(tags) THEN x
    ELSE LET tag == tags[i]
             y == [x EXCEPT !.tagsArray = Append(@, tag)]
         IN  ExtractLoop(tags, i + 1,
                 IF Len(tag) < 2 THEN y
                 ELSE IF tag[1] = "d" THEN [y EXCEPT !.d = tag[2]]
                 ELSE IF tag[1] \in ArrayTags
                      THEN [y EXCEPT ![tag[1]] = Append(@, tag[2])]
                      ELSE y)

extractAllTags(tags) == ExtractLoop(tags, 1, NoTags)

\* the tag columns of the row ExecContext is called with for an event
InsertRow(event) ==
    LET extracted == extractAllTags(event.Tags)
    IN  [id |-> event.ID,
         tags |-> extracted.tagsArray,
         tag_e |-> extracted.e, tag_p |-> extracted.p, tag_a |-> extracted.a,
         tag_t |-> extracted.t, tag_d |-> extracted.d, tag_g |-> extracted.g,
         tag_r |-> extracted.r]

\* the tag lists of the events written
ExampleTags == << <<"e", "abc">>, <<"p", "def">>, <<"e", "ghi">> >>

MalformedTags == << <<"e">>, <<"d", "x">>, <<"zz", "q">>, <<"d", "y">>, <<"e", "abc">> >>

MixedTags == << <<"g", "u4pr">>, <<"r", "wss">>, <<>>, <<"t", "nostr">>, <<"a", "addr">>, <<"r">> >>

TagLists == {<<>>, ExampleTags, MalformedTags, MixedTags}

\* the inputs of batchInsertOptimized: at most n events, event i named evi
InsertInputs(n) ==
    UNION {{[i \in 1..k |-> [ID |-> "ev" \o ToString(i), Tags |-> tl[i]]] :
                tl \in [1..k -> TagLists]} : k \in 0..n}

InitInsert ==
    /\ insEvents \in InsertInputs(MaxInsert)
    /\ prepared = FALSE
    /\ execs = <<>>
    /\ insRet = NoInsRet
    /\ insPc = "idle"
    /\ MainIdle
    /\ filter = EmptyFilter
    /\ plan = NoPlan
    /\ qpc = "idle"
    /\ ReadIdle
    /\ ShapeIdle
    /\ IngestIdle

\* len(events) == 0: return nil; else s.db.PrepareContext, whose outcome is ok
InsertPrepare(ok) ==
    /\ insPc = "idle"
    /\ IF Len(insEvents) = 0
       THEN /\ insRet' = <<>>
            /\ insPc' = "done"
            /\ UNCHANGED prepared
       ELSE /\ prepared' = TRUE
            /\ IF ok
               THEN insPc' = "loop" /\ UNCHANGED insRet
               ELSE /\ insRet' = <<"failed to prepare statement: ", "store error">>
                    /\ insPc' = "done"
    /\ UNCHANGED <<insEvents, execs, mainVars, planVars, ingestVars>>

\* variant of the loop body: the error of a row is kept and the loop goes on
InsertExecContinue(ok) ==
    /\ insPc = "loop"
    /\ Len(execs) < Len(insEvents)
    /\ LET event == insEvents[Len(execs) + 1]
       IN  /\ execs' = Append(execs, [row |-> InsertRow(event), ok |-> ok])
           /\ IF ok \/ insRet # NoInsRet
              THEN UNCHANGED insRet
              ELSE insRet' = <<"failed to execute statement for event ", event.ID,
                               ": ", "store error">>
           /\ insPc' = IF insRet' # NoInsRet /\ Len(execs') = Len(insEvents)
                       THEN "done" ELSE "loop"
    /\ UNCHANGED <<insEvents, prepared, mainVars, planVars, ingestVars>>

\* one turn of the loop: extractAllTags, stmt.ExecContext, whose outcome is ok
InsertExec(ok) ==
    /\ insPc = "loop"
    /\ Len(execs) < Len(insEvents)
    /\ LET event == insEvents[Len(execs) + 1]
       IN  /\ execs' = Append(execs, [row |-> InsertRow(event), ok |-> ok])
           /\ IF ok
              THEN UNCHANGED <<insRet, insPc>>
              ELSE /\ insRet' = <<"failed to execute statement for event ", event.ID,
                                  ": ", "store error">>
                   /\ insPc' = "done"
    /\ UNCHANGED <<insEvents, prepared, mainVars, planVars, ingestVars>>

\* the loop is over: return nil
InsertReturn ==
    /\ insPc = "loop"
    /\ Len(execs) = Len(insEvents)
    /\ insRet' = <<>>
    /\ insPc' = "done"
    /\ UNCHANGED <<insEvents, prepared, execs, mainVars, planVars, ingestVars>>

NextInsert ==
    \/ \E ok \in BOOLEAN : InsertPrepare(ok)
    \/ \E ok \in BOOLEAN : InsertExec(ok)
    \/ InsertReturn

SpecInsert == InitInsert /\ [][NextInsert]_vars

-----------------------------------------------------------------------------
(* The process around the storage  (main.go: main)                         *)

InitMain ==
    /\ mainPc = "start"
    /\ created = FALSE
    /\ closeRan = FALSE
    /\ InsertIdle
    /\ batchSize \in 1..MaxBatch
    /\ batchChan = <<>>
    /\ chanClosed = FALSE
    /\ stopBatch = FALSE
    /\ batchDone = FALSE
    /\ buffer = <<>>
    /\ pc = "select"
    /\ after = "loop"
    /\ batches = <<>>
    /\ received = <<>>
    /\ saves = <<>>
    /\ stopAt = -1
    /\ filter = EmptyFilter
    /\ plan = NoPlan
    /\ qpc = "idle"
    /\ ReadIdle
    /\ ShapeIdle

\* clickhouse.NewStorage: on error log.Fatalf ends the process; on success the
\* deferred storage.Close() is registered and the worker runs
MainNewStorage(ok) ==
    /\ mainPc = "start"
    /\ mainPc' = IF ok THEN "ping" ELSE "exited"
    /\ created' = ok
    /\ UNCHANGED <<closeRan, insertVars, planVars, ingestVars>>

\* storage.Ping: on error log.Fatalf calls os.Exit(1), which runs no deferred
\* function
MainPing(ok) ==
    /\ mainPc = "ping"
    /\ mainPc' = IF ok THEN "serving" ELSE "exited"
    /\ UNCHANGED <<created, closeRan, insertVars, planVars, ingestVars>>

\* relay.StartAndServe returns: nil after the shutdown signal cancelled ctx,
\* then main returns and its deferred functions run; an error goes to
\* log.Fatalf
MainServeReturn(ok) ==
    /\ mainPc = "serving"
    /\ mainPc' = IF ok THEN "closing" ELSE "exited"
    /\ UNCHANGED <<created, closeRan, insertVars, planVars, ingestVars>>

\* relay.On.Event = storage.SaveEvent, while the relay serves
MainEvent ==
    /\ mainPc = "serving"
    /\ \E ok \in BOOLEAN : SaveEvent(ok)

\* the batching worker, alive while the process is
MainWorker ==
    /\ mainPc \in {"ping", "serving", "closing"}
    /\ \/ OnStop
       \/ OnTick
       \/ OnRecv
       \/ \E ok \in BOOLEAN : StoreReturn(ok)

\* the deferred storage.Close() raises the stop signal ...
MainCloseStop ==
    /\ mainPc = "closing"
    /\ Stop

\* ... waits for batchDone and returns; the process exits
MainCloseDone ==
    /\ mainPc = "closing"
    /\ batchDone
    /\ closeRan' = TRUE
    /\ mainPc' = "exited"
    /\ UNCHANGED <<created, insertVars, planVars, ingestVars>>

NextMain ==
    \/ \E ok \in BOOLEAN : MainNewStorage(ok)
    \/ \E ok \in BOOLEAN : MainPing(ok)
    \/ \E ok \in BOOLEAN : MainServeReturn(ok)
    \/ MainEvent
    \/ MainWorker
    \/ MainCloseStop
    \/ MainCloseDone

SpecMain == InitMain /\ [][NextMain]_vars

-----------------------------------------------------------------------------
(* Properties of the planner, checked under SpecPlan                       *)

Planned == qpc = "planned"

\* the tag names the filter's tag map gives a non-empty value list
PopulatedTags == {n \in TagNames : Len(filter.Tags[n]) > 0}

NoIdAuthorKind ==
    Len(filter.IDs) = 0 /\ Len(filter.Authors) = 0 /\ Len(filter.Kinds) = 0

\* C1: the table is chosen by a fixed priority, first match wins: a non-empty
\* id list gives the base events table whatever else is present; otherwise a
\* non-empty author list gives events_by_author; otherwise a non-empty kind
\* list gives events_by_kind.
C1_PriorityRouting ==
    Planned =>
        /\ Len(filter.IDs) > 0 => plan.table = "nostr.events"
        /\ Len(filter.IDs) = 0 /\ Len(filter.Authors) > 0
              => plan.table = "nostr.events_by_author"
        /\ Len(filter.IDs) = 0 /\ Len(filter.Authors) = 0 /\ Len(filter.Kinds) > 0
              => plan.table = "nostr.events_by_kind"

\* an id list together with authors, kinds and a tag, planned to the base table
C1_Witness ==
    /\ Planned
    /\ Len(filter.IDs) > 0 /\ Len(filter.Authors) > 0 /\ Len(filter.Kinds) > 0
    /\ PopulatedTags = {"p"}
    /\ plan.table = "nostr.events"

\* C2: every column a predicate of the generated query refers to is a column
\* of the table the query was routed to.
C2_ColumnsExist ==
    Planned => PredColumns(plan) \subseteq TableColumns(plan.table)

TagView(n) == "nostr.events_by_tag_" \o n

\* C4 as stated: with no id, author or kind constraint, exactly one populated
\* recognized tag name gives the view specialized for that name.
C4_SingleTagView ==
    Planned /\ NoIdAuthorKind =>
        \A n \in TagNames : PopulatedTags = {n} => plan.table = TagView(n)

\* C4 amended: with no id, author or kind constraint and exactly one populated
\* recognized tag name, p gives events_by_tag_p, e gives events_by_tag_e, and
\* a, t, d, g or r (which have no view) gives the base events table.
C4_SingleTagRouting ==
    Planned /\ NoIdAuthorKind =>
        \A n \in TagNames : PopulatedTags = {n} =>
            plan.table = IF n \in {"p", "e"} THEN TagView(n) ELSE "nostr.events"

\* only e populated: planned to events_by_tag_e with an IN list on tag_e_value
C4_Witness ==
    /\ Planned
    /\ NoIdAuthorKind
    /\ PopulatedTags = {"e"}
    /\ plan.table = "nostr.events_by_tag_e"
    /\ "tag_e_value" \in PredColumns(plan)

\* C5: the row cap written after LIMIT is 5000 for a limit of 0 or above 5000,
\* and the limit itself for a limit from 1 to 5000.
C5_LimitClamp ==
    Planned =>
        /\ plan.tokens[Len(plan.tokens) - 1] = " ORDER BY created_at DESC LIMIT "
        /\ (filter.Limit = 0 \/ filter.Limit > 5000) => LimitText(plan) = "5000"
        /\ filter.Limit \in 1..5000 => LimitText(plan) = ToString(filter.Limit)

\* a limit of 50000 planned to LIMIT 5000
C5_Witness ==
    /\ Planned
    /\ filter.Limit = 50000
    /\ LimitText(plan) = "5000"

-----------------------------------------------------------------------------
(* Properties of the ingestion worker, checked under Spec                  *)

\* the events passed to the store in some batch
Batched == UNION {Range(batches[i].events) : i \in DOMAIN batches}

\* every flush so far was triggered by the size threshold
OnlySizeFlushes == \A i \in DOMAIN batches : batches[i].trigger = "size"

\* C6: as long as only the size threshold has triggered flushes, the batches
\* passed to the store are exactly the successive groups of batchSize received
\* events, in arrival order, one store call per group; the buffer holds the
\* group being written while the write runs and the not yet flushed rest
\* (fewer than batchSize events, none right after a flush) otherwise.
C6_SizeFlush ==
    OnlySizeFlushes =>
        /\ Len(batches) = Len(received) \div batchSize
        /\ \A i \in DOMAIN batches :
              batches[i].events =
                  SubSeq(received, (i - 1) * batchSize + 1, i * batchSize)
        /\ buffer = IF pc = "insert"
                    THEN batches[Len(batches)].events
                    ELSE SubSeq(received, Len(batches) * batchSize + 1, Len(received))
        /\ pc # "insert" => Len(buffer) < batchSize

\* threshold 3: three events received, one flush holding all three has
\* returned, the buffer is empty
C6_Witness ==
    /\ batchSize = 3
    /\ received = <<1, 2, 3>>
    /\ Len(batches) = 1
    /\ batches[1].events = <<1, 2, 3>>
    /\ batches[1].trigger = "size"
    /\ batches[1].result # "pending"
    /\ pc = "select"
    /\ buffer = <<>>

\* C7: no event is passed to a store batch write twice, and once a write has
\* returned (with or without error) none of the events of any batch is left in
\* the buffer.
C7_AtMostOnce ==
    /\ \A i, j \in DOMAIN batches :
          \A k \in DOMAIN batches[i].events, l \in DOMAIN batches[j].events :
              batches[i].events[k] = batches[j].events[l] => i = j /\ k = l
    /\ pc # "insert" => Batched \cap Range(buffer) = {}

\* a batch failed and a later batch was passed to the store
C7_Witness ==
    \E i, j \in DOMAIN batches :
        /\ i < j
        /\ batches[i].result = "err"
        /\ Range(batches[i].events) \cap Range(batches[j].events) = {}

\* C8: batchDone is closed only when the worker has left its loop with an
\* empty buffer, no store write is running, and every event the worker took
\* from the queue has been passed to the store in some batch.
C8_FinalFlush ==
    batchDone =>
        /\ pc = "done"
        /\ buffer = <<>>
        /\ \A i \in DOMAIN batches : batches[i].result # "pending"
        /\ Range(received) \subseteq Batched

\* the stop signal found a non-empty buffer: the final flush wrote it, then
\* batchDone was closed
C8_Witness ==
    /\ batchDone
    /\ stopBatch
    /\ Len(batches) > 0
    /\ batches[Len(batches)].trigger = "stop"
    /\ batches[Len(batches)].result # "pending"

\* the events SaveEvent put on the queue before the stop signal was raised
AcceptedBeforeStop ==
    {saves[i].ev : i \in {k \in DOMAIN saves : k <= stopAt /\ ~saves[k].full}}

\* C9: when batchDone is closed, every event accepted into the queue before
\* the stop signal has been passed to the store in some batch.
C9_ShutdownDrains ==
    batchDone => AcceptedBeforeStop \subseteq Batched

\* the events that are or were on the queue
Enqueued == Range(batchChan) \cup Range(received)

-----------------------------------------------------------------------------
(* Further properties of the ingestion worker                              *)

\* the batches whose store write has not returned yet
Pending == {i \in DOMAIN batches : batches[i].result = "pending"}

\* C11: a store write error does not end the worker.  A failed flush that was
\* not the final one (stop, closed queue) puts the worker back into its select
\* with an empty buffer, and no batch passed to the store after a failed batch
\* holds any of its events.
C11_FailedFlushIsolated ==
    /\ [][(pc = "insert" /\ after = "loop" /\ pc' # "insert")
            => (pc' = "select" /\ buffer' = <<>> /\ ~batchDone')]_vars
    /\ [](\A i, j \in DOMAIN batches :
            i < j /\ batches[i].result = "err"
                => Range(batches[i].events) \cap Range(batches[j].events) = {})

\* a size-triggered batch failed; the worker went on, received another event
\* and wrote it in a later batch that succeeded
C11_Witness ==
    \E i, j \in DOMAIN batches :
        /\ i < j
        /\ batches[i].result = "err" /\ batches[i].trigger \in {"size", "tick"}
        /\ batches[j].result = "ok"
        /\ \E e \in Range(batches[j].events) :
              \A f \in Range(batches[i].events) : e > f

\* C19: at most one store write is in progress, and it is the worker that is
\* in it; while it runs the buffer is the batch being written (nothing is
\* appended, nothing reset), no further event is taken from the queue and
\* batchDone stays open.
C19_NoReentrantFlush ==
    /\ Cardinality(Pending) <= 1
    /\ Pending = IF pc = "insert" THEN {Len(batches)} ELSE {}
    /\ pc = "insert" =>
          /\ buffer = batches[Len(batches)].events
          /\ Len(received) >= Len(buffer)
          /\ buffer = SubSeq(received, Len(received) - Len(buffer) + 1, Len(received))
          /\ ~batchDone

\* a store write is running while the stop signal is up and an event waits on
\* the queue
C19_Witness ==
    /\ pc = "insert"
    /\ stopBatch
    /\ Len(batchChan) > 0
    /\ Cardinality(Pending) = 1

\* the ticker keeps firing and every store write returns
SpecLive ==
    /\ Init
    /\ [][Next]_vars
    /\ WF_vars(OnTick)
    /\ WF_vars(\E ok \in BOOLEAN : StoreReturn(ok))

\* C20: with the ticker firing, every event in the worker's buffer is
\* eventually passed to the store in a batch.
C20_TimerFlushes ==
    \A e \in 1..MaxEvents : (e \in Range(buffer)) ~> (e \in Batched)

\* an event below the size threshold was written by a tick-triggered flush
C20_Witness ==
    \E i \in DOMAIN batches :
        /\ batches[i].trigger = "tick"
        /\ Len(batches[i].events) < batchSize
        /\ ~stopBatch /\ ~chanClosed

-----------------------------------------------------------------------------
(* Further properties of the planner, checked under SpecPlan               *)

\* the number of ? placeholders in a token list
Marks(toks) == Cardinality({k \in DOMAIN toks : toks[k] = "?"})

\* the number of tokens of a plan's text equal to tok
Count(p, tok) == Cardinality({k \in DOMAIN p.tokens : p.tokens[k] = tok})

\* the predicates of a plan on column col
CondsOn(p, col) ==
    {p.conditions[i] : i \in {k \in DOMAIN p.conditions : p.conditions[k][1] = col}}

\* the array-contains-any predicate on column col
AnyOf(col) == <<"hasAny(", col, ", ", "?", ")">>

\* c is an IN list on column col with n placeholders
IsInList(c, col, n) ==
    Len(c) >= 3 /\ c[1] = col /\ c[2] = " IN (" /\ c[Len(c)] = ")" /\ Marks(c) = n

\* C15: whatever the filter and the table, the WHERE clause starts with
\* deleted = 0 and its conditions are joined with AND only.
C15_DeletedExcluded ==
    Planned =>
        /\ plan.tokens[5] = " WHERE "
        /\ plan.tokens[6] = "deleted" /\ plan.tokens[7] = " = 0"
        /\ plan.tokens[8] \in {" AND ", " ORDER BY created_at DESC LIMIT "}
        /\ Count(plan, " WHERE ") = 1
        /\ Count(plan, " AND ") = Len(plan.conditions) - 1
        /\ Count(plan, " OR ") = 0

\* a query routed to the p view, with a second predicate ANDed to deleted = 0
C15_Witness ==
    /\ Planned
    /\ plan.table = "nostr.events_by_tag_p"
    /\ plan.tokens[6] = "deleted" /\ plan.tokens[8] = " AND "

\* the tag predicates on a tag view: an IN list on the view's value column
ViewPredicates ==
    /\ plan.table = "nostr.events_by_tag_p" =>
          \E c \in Range(plan.conditions) :
              IsInList(c, "tag_p_value", Len(filter.Tags["p"]))
    /\ plan.table = "nostr.events_by_tag_e" =>
          \E c \in Range(plan.conditions) :
              IsInList(c, "tag_e_value", Len(filter.Tags["e"]))

OnTagView == plan.table \in {"nostr.events_by_tag_p", "nostr.events_by_tag_e"}

\* C16 as stated: on a tag view the tag's predicate is an IN list on the value
\* column; on any other table every populated tag name among e, p, a, t, d has
\* an array-contains-any predicate on its array column.
C16_TagPredicatesAllArrays ==
    Planned =>
        /\ ViewPredicates
        /\ ~OnTagView =>
              \A n \in {"e", "p", "a", "t", "d"} :
                  Len(filter.Tags[n]) > 0 => AnyOf("tag_" \o n) \in Range(plan.conditions)

\* C16 amended: on a tag view the tag's predicate is an IN list on the value
\* column; on any other table every populated tag name among e, p, a, t has an
\* array-contains-any predicate on its array column, and a populated d has an
\* IN list on the scalar column tag_d, one placeholder per value.
C16_TagPredicates ==
    Planned =>
        /\ ViewPredicates
        /\ ~OnTagView =>
              \A n \in {"e", "p", "a", "t"} :
                  Len(filter.Tags[n]) > 0 => AnyOf("tag_" \o n) \in Range(plan.conditions)
        /\ Len(filter.Tags["d"]) > 0 =>
              \E c \in Range(plan.conditions) : IsInList(c, "tag_d", Len(filter.Tags["d"]))

\* t and d populated, on the base table: hasAny on tag_t, an IN list on tag_d
C16_Witness ==
    /\ Planned
    /\ PopulatedTags = {"t", "d"}
    /\ plan.table = "nostr.events"
    /\ AnyOf("tag_t") \in Range(plan.conditions)
    /\ \E c \in Range(plan.conditions) : IsInList(c, "tag_d", Len(filter.Tags["d"]))

\* where the since parameter sits in the parameter list
SinceIndex == Len(filter.IDs) + Len(filter.Authors) + Len(filter.Kinds) + 1

UntilIndex == SinceIndex + (IF filter.Since.set THEN 1 ELSE 0)

\* the 32-bit parameter p carries the 64-bit value t
SameTime(p, t) == t.hi = 0 /\ p = [u32 |-> t.lo]

\* C17: a supplied since adds created_at >= ? bound to the supplied value, a
\* supplied until adds created_at <= ? bound to the supplied value, and an
\* absent bound adds no predicate.
C17_TimeBounds ==
    Planned =>
        /\ filter.Since.set <=> <<"created_at", " >= ", "?">> \in Range(plan.conditions)
        /\ filter.Until.set <=> <<"created_at", " <= ", "?">> \in Range(plan.conditions)
        /\ filter.Since.set => SameTime(plan.args[SinceIndex], filter.Since)
        /\ filter.Until.set => SameTime(plan.args[UntilIndex], filter.Until)

\* the dimensions of the filter that buildQuery turns into a predicate
PopulatedDims ==
    (IF Len(filter.IDs) > 0 THEN {"id"} ELSE {})
    \cup (IF Len(filter.Authors) > 0 THEN {"pubkey"} ELSE {})
    \cup (IF Len(filter.Kinds) > 0 THEN {"kind"} ELSE {})
    \cup (IF filter.Since.set THEN {"since"} ELSE {})
    \cup (IF filter.Until.set THEN {"until"} ELSE {})
    \cup (PopulatedTags \cap {"e", "p", "a", "t", "d"})
    \cup (IF filter.Search # "" THEN {"search"} ELSE {})

\* C18: an empty id, author, kind or tag-value list and an empty search term
\* add no predicate and no parameter: the columns of an empty dimension do not
\* occur, there is one predicate per populated dimension besides deleted = 0,
\* one parameter per placeholder of the text, and a filter
\* with every field empty plans to the base table with deleted = 0 alone and no
\* parameter.
C18_EmptyIsUnconstrained ==
    Planned =>
        /\ Len(filter.IDs) = 0 => "id" \notin PredColumns(plan)
        /\ Len(filter.Authors) = 0 => "pubkey" \notin PredColumns(plan)
        /\ Len(filter.Kinds) = 0 => "kind" \notin PredColumns(plan)
        /\ \A n \in TagNames :
              Len(filter.Tags[n]) = 0 =>
                  PredColumns(plan) \cap {"tag_" \o n, "tag_" \o n \o "_value"} = {}
        /\ filter.Search = "" => "content" \notin PredColumns(plan)
        /\ Len(plan.conditions) = 1 + Cardinality(PopulatedDims)
        /\ Len(plan.args) = Count(plan, "?")
        /\ (PopulatedDims = {} /\ PopulatedTags = {}) =>
              /\ plan.table = "nostr.events"
              /\ plan.conditions = << <<"deleted", " = 0">> >>
              /\ plan.args = <<>>

\* the filter with every field empty, planned
C18_Witness ==
    /\ Planned
    /\ PopulatedDims = {} /\ PopulatedTags = {}
    /\ filter.Limit = 0
    /\ plan.table = "nostr.events"
    /\ plan.args = <<>>

-----------------------------------------------------------------------------
(* Properties of result assembly, checked under SpecRows                   *)

\* the identities of a list of events
Ids(evs) == {evs[i].ID : i \in DOMAIN evs}

\* the positions of evs holding the first occurrence of their identity
FirstAt(evs) == {i \in DOMAIN evs : \A j \in 1..(i - 1) : evs[j].ID # evs[i].ID}

\* the k-th smallest element of a set of positions
Nth(S, k) == CHOOSE i \in S : Cardinality({j \in S : j <= i}) = k

\* C12: deduplicateEvents returns, in input order, exactly the first
\* occurrence of every identity of its input: each identity once, an
\* order-preserving subsequence, and an input without duplicates unchanged.
C12_DedupKeepsFirst ==
    qpc = "deduped" =>
        LET in == returned.events
            out == deduped
        IN  /\ Ids(out) = Ids(in)
            /\ Len(out) = Cardinality(Ids(in))
            /\ Len(out) = Cardinality(FirstAt(in))
            /\ \A k \in DOMAIN out : out[k] = in[Nth(FirstAt(in), k)]
            /\ Cardinality(Ids(in)) = Len(in) => out = in

\* a list where the second occurrence of an identity differs from the first
\* in its tags and a different identity stands between them
C12_Witness ==
    /\ qpc = "deduped"
    /\ Len(returned.events) = 3 /\ Len(deduped) = 2
    /\ returned.events[1].ID = returned.events[3].ID
    /\ returned.events[1].Tags # returned.events[3].Tags
    /\ deduped = SubSeq(returned.events, 1, 2)

\* the tags the valid payload spells
ValidTags == << <<"e", "abc">>, <<"p", "def">> >>

\* the payloads encoding/json rejects
CorruptPayloads == {TruncatedJSON, WrongTypeJSON}

\* C13: when the store raises no failure, queryFilter returns no error and one
\* event per row of the result set, in order; the event of a row whose tag
\* payload fails to parse has empty tags, and the event of a row with a valid
\* payload has that payload's tags, whatever the other rows hold.
C13_CorruptTagsIsolated ==
    (qpc \in {"returned", "deduped"} /\ store.fault = "none") =>
        /\ returned.err = <<>>
        /\ Len(returned.events) = Len(store.rows)
        /\ \A i \in DOMAIN store.rows :
              /\ returned.events[i].ID = store.rows[i].id
              /\ store.rows[i].tags_json \in CorruptPayloads =>
                    returned.events[i].Tags = <<>>
              /\ store.rows[i].tags_json = ValidJSON =>
                    returned.events[i].Tags = ValidTags

\* a corrupt row between two valid rows
C13_Witness ==
    /\ qpc = "returned"
    /\ store.fault = "none"
    /\ Len(store.rows) = 3
    /\ store.rows[1].tags_json = ValidJSON
    /\ store.rows[2].tags_json = WrongTypeJSON
    /\ store.rows[3].tags_json = ValidJSON
    /\ returned.err = <<>>
    /\ returned.events[2].Tags = <<>>
    /\ returned.events[3].Tags = ValidTags

-----------------------------------------------------------------------------
(* Shape and content, checked under SpecShape                              *)

\* both filters have been planned
BothPlanned == qpc = "planned" /\ plan2 # NoPlan

\* f and g populate the same fields with lists of the same lengths and have
\* the same limit
SameShape(f, g) ==
    /\ Len(f.IDs) = Len(g.IDs)
    /\ Len(f.Authors) = Len(g.Authors)
    /\ Len(f.Kinds) = Len(g.Kinds)
    /\ \A n \in TagNames : Len(f.Tags[n]) = Len(g.Tags[n])
    /\ f.Since.set = g.Since.set
    /\ f.Until.set = g.Until.set
    /\ (f.Search = "") = (g.Search = "")
    /\ f.Limit = g.Limit

\* the strings a caller put into the filter
TextValues(f) ==
    (Range(f.IDs) \cup Range(f.Authors) \cup {f.Search}
        \cup UNION {Range(f.Tags[n]) : n \in TagNames}) \ {""}

\* the numbers a caller put into the filter, as decimal text
NumberValues(f) ==
    {ToString(f.Kinds[i]) : i \in DOMAIN f.Kinds}
    \cup (IF f.Since.set /\ f.Since.hi = 0 THEN {ToString(f.Since.lo)} ELSE {})
    \cup (IF f.Until.set /\ f.Until.hi = 0 THEN {ToString(f.Until.lo)} ELSE {})

\* the text of a plan before the number after LIMIT
BeforeLimit(p) == {p.tokens[k] : k \in 1..(Len(p.tokens) - 1)}

\* no value of f occurs in the text of p, the first parameters of p are the
\* ids, then the authors, then one 16-bit parameter per kind, and the id,
\* author and kind predicates have one placeholder per element
ValuesOnlyBound(f, p) ==
    /\ BeforeLimit(p) \cap (TextValues(f) \cup NumberValues(f)) = {}
    /\ Len(p.args) >= Len(f.IDs) + Len(f.Authors) + Len(f.Kinds)
    /\ \A i \in DOMAIN f.IDs : p.args[i] = [str |-> f.IDs[i]]
    /\ \A i \in DOMAIN f.Authors : p.args[Len(f.IDs) + i] = [str |-> f.Authors[i]]
    /\ \A i \in DOMAIN f.Kinds :
          DOMAIN p.args[Len(f.IDs) + Len(f.Authors) + i] = {"u16"}
    /\ \A c \in CondsOn(p, "id") : Marks(c) = Len(f.IDs)
    /\ \A c \in CondsOn(p, "pubkey") : Marks(c) = Len(f.Authors)
    /\ \A c \in CondsOn(p, "kind") : Marks(c) = Len(f.Kinds)

\* C14: two filters of the same shape get the same table and the same query
\* text, token for token; the values of a filter occur only in its parameter
\* list, one parameter per id, author and kind, never in the text.
C14_ShapeNotContent ==
    BothPlanned =>
        /\ SameShape(filter, filter2) =>
              /\ plan.table = plan2.table
              /\ plan.tokens = plan2.tokens
              /\ Concat(plan.tokens) = Concat(plan2.tokens)
        /\ ValuesOnlyBound(filter, plan)
        /\ ValuesOnlyBound(filter2, plan2)

\* two filters with every kind of field populated, of different content
C14_Witness ==
    /\ BothPlanned
    /\ SameShape(filter, filter2)
    /\ Len(filter.IDs) = 2 /\ Len(filter.Authors) = 1 /\ Len(filter.Kinds) = 2
    /\ filter.Search # "" /\ filter.Search # filter2.Search
    /\ filter.IDs # filter2.IDs
    /\ Len(filter.Tags["e"]) = 2 /\ filter.Tags["e"] # filter2.Tags["e"]
    /\ filter.Since.set
    /\ plan.args # plan2.args
    /\ plan.tokens = plan2.tokens

-----------------------------------------------------------------------------
(* queryFilter's failures, checked under SpecRows                          *)

QueryReturned == qpc \in {"returned", "deduped"}

\* C21: a failing query returns an error whose text names the routed table; a
\* query, scan or iteration failure returns an error and no event; an error
\* never comes with events, and a nil error comes with one event per row.
C21_QueryErrors ==
    QueryReturned =>
        /\ store.fault = "query" =>
              /\ returned.err # <<>>
              /\ returned.err[1] = "query failed on table "
              /\ returned.err[2] = plan.table
              /\ plan.table \in {"nostr.events", "nostr.events_by_tag_p"}
        /\ store.fault # "none" => returned.err # <<>>
        /\ returned.err # <<>> => returned.events = <<>>
        /\ returned.err = <<>> => Len(returned.events) = Len(store.rows)

\* the third row fails to scan after two events were assembled, on the p view
C21_Witness ==
    /\ qpc = "returned"
    /\ store.fault = "scan" /\ store.at = 3
    /\ Len(events) = 2
    /\ plan.table = "nostr.events_by_tag_p"
    /\ returned.err # <<>>
    /\ returned.events = <<>>

-----------------------------------------------------------------------------
(* Further properties of the planner, checked under SpecPlan               *)

\* the columns that hold the values of tag n
TagColumns(n) == {"tag_" \o n, "tag_" \o n \o "_value"}

\* C23: every tag name the filter's tag map gives a non-empty value list,
\* g and r included, has a predicate on one of its columns in the query.
C23_NoTagIgnored ==
    Planned =>
        \A n \in PopulatedTags : PredColumns(plan) \cap TagColumns(n) # {}

\* C24: whatever the filter's limit, negative included, the number written
\* after LIMIT is between 1 and 5000.
C24_RowCapInRange ==
    Planned => \E n \in 1..5000 : LimitText(plan) = ToString(n)

\* the values of the filter in the order buildQuery binds them: a string, a
\* number, a time, or a list of strings bound as one array
ValueOrder(f, table) ==
    [i \in DOMAIN f.IDs |-> [str |-> f.IDs[i]]]
    \o [i \in DOMAIN f.Authors |-> [str |-> f.Authors[i]]]
    \o [i \in DOMAIN f.Kinds |-> [num |-> f.Kinds[i]]]
    \o (IF f.Since.set THEN << [time |-> f.Since] >> ELSE <<>>)
    \o (IF f.Until.set THEN << [time |-> f.Until] >> ELSE <<>>)
    \o (IF Len(f.Tags["e"]) = 0 THEN <<>>
        ELSE IF table = "nostr.events_by_tag_e"
             THEN [i \in DOMAIN f.Tags["e"] |-> [str |-> f.Tags["e"][i]]]
             ELSE << [slice |-> f.Tags["e"]] >>)
    \o (IF Len(f.Tags["p"]) = 0 THEN <<>>
        ELSE IF table = "nostr.events_by_tag_p"
             THEN [i \in DOMAIN f.Tags["p"] |-> [str |-> f.Tags["p"][i]]]
             ELSE << [slice |-> f.Tags["p"]] >>)
    \o (IF Len(f.Tags["a"]) = 0 THEN <<>> ELSE << [slice |-> f.Tags["a"]] >>)
    \o (IF Len(f.Tags["t"]) = 0 THEN <<>> ELSE << [slice |-> f.Tags["t"]] >>)
    \o [i \in DOMAIN f.Tags["d"] |-> [str |-> f.Tags["d"][i]]]
    \o (IF f.Search = "" THEN <<>> ELSE << [str |-> f.Search] >>)

\* the parameter p carries the value v
Carries(p, v) ==
    CASE "num" \in DOMAIN v -> p = [u16 |-> v.num]
      [] "time" \in DOMAIN v -> SameTime(p, v.time)
      [] OTHER -> p = v

\* C25: the text has as many ? as there are parameters, and the i-th
\* parameter is the i-th value of the filter in the order ids, authors, kinds,
\* since, until, e, p, a, t, d, search.
C25_ParamsMatchPlaceholders ==
    Planned =>
        /\ Count(plan, "?") = Len(plan.args)
        /\ Len(plan.args) = Len(ValueOrder(filter, plan.table))
        /\ \A i \in DOMAIN plan.args :
              Carries(plan.args[i], ValueOrder(filter, plan.table)[i])

-----------------------------------------------------------------------------
(* Further properties of the batching worker                               *)

\* C27: waiting in the select the buffer holds fewer than batchSize events;
\* it never holds more than batchSize; every batch passed to the store has
\* between 1 and batchSize events.
C27_BufferBounded ==
    /\ pc = "select" => Len(buffer) < batchSize
    /\ Len(buffer) <= batchSize
    /\ \A i \in DOMAIN batches :
          Len(batches[i].events) >= 1 /\ Len(batches[i].events) <= batchSize

\* the worker left through the stop case with an empty buffer and made no
\* store call for it, after a full batch and a timer batch
C27_Witness ==
    /\ batchSize = 3
    /\ batchDone /\ stopBatch /\ ~chanClosed
    /\ Len(batches) = 2
    /\ batches[1].trigger = "size" /\ Len(batches[1].events) = 3
    /\ batches[2].trigger = "tick" /\ Len(batches[2].events) = 1
    /\ Len(received) = 4

\* C29 (checked under SpecStop): once the stop signal is raised batchDone is
\* eventually closed, and after batchDone is closed no batch is passed to the
\* store.
C29_StopTerminates ==
    /\ stopBatch ~> batchDone
    /\ [][batchDone => (batches' = batches /\ batchDone')]_vars

\* the worker stopped through the stop case with its final flush written while
\* the queue still held an event
C29_Witness ==
    /\ batchDone /\ stopBatch /\ ~chanClosed
    /\ Len(batchChan) > 0
    /\ Len(batches) > 0
    /\ batches[Len(batches)].trigger = "stop"
    /\ batches[Len(batches)].result # "pending"

RECURSIVE Flat(_)
\* the batches' events, concatenated in flush order
Flat(bs) == IF bs = <<>> THEN <<>> ELSE Head(bs).events \o Flat(Tail(bs))

\* the events sent on the queue, in send order
Sent ==
    LET F[k \in 0..Len(saves)] ==
            IF k = 0 THEN <<>>
            ELSE IF saves[k].full THEN F[k - 1] ELSE Append(F[k - 1], saves[k].ev)
    IN  F[Len(saves)]

\* C30: when the worker has ended without the stop signal (so through the
\* closed case) and every store write succeeded, the batches concatenated in
\* flush order are the events sent on the queue, in order.
C30_CloseDeliversAll ==
    (batchDone /\ ~stopBatch /\ \A i \in DOMAIN batches : batches[i].result = "ok")
        => Flat(batches) = Sent

\* ended through the closed case: a size batch, then the rest flushed at close,
\* with one event having gone round the queue
C30_Witness ==
    /\ batchDone /\ ~stopBatch /\ chanClosed
    /\ Len(batches) >= 2
    /\ batches[1].trigger = "size"
    /\ batches[Len(batches)].trigger = "closed"
    /\ \A i \in DOMAIN batches : batches[i].result = "ok"
    /\ Len(Sent) = 3
    /\ \E k \in DOMAIN saves : saves[k].full

-----------------------------------------------------------------------------
(* Properties of the multi-row write, checked under SpecInsert             *)

\* the values of the entries of tags named n that have a value, in order
ValuesOf(tags, n) ==
    LET F[k \in 0..Len(tags)] ==
            IF k = 0 THEN <<>>
            ELSE IF Len(tags[k]) >= 2 /\ tags[k][1] = n
                 THEN Append(F[k - 1], tags[k][2]) ELSE F[k - 1]
    IN  F[Len(tags)]

\* the last element of a list of strings, "" when there is none
LastOr(vals) == IF vals = <<>> THEN "" ELSE vals[Len(vals)]

C28_StopsAtFirstFailure ==
    /\ Len(execs) <= Len(insEvents)
    /\ \A i \in DOMAIN execs :
          /\ execs[i].row.id = insEvents[i].ID
          /\ i < Len(execs) => execs[i].ok
    /\ insPc = "done" =>
          /\ insRet # NoInsRet
          /\ insRet = <<>> =>
                /\ Len(execs) = Len(insEvents)
                /\ \A i \in DOMAIN execs : execs[i].ok
          /\ (execs # <<>> /\ ~execs[Len(execs)].ok) =>
                insRet = <<"failed to execute statement for event ",
                           insEvents[Len(execs)].ID, ": ", "store error">>
          /\ insEvents = <<>> => insRet = <<>> /\ ~prepared /\ execs = <<>>
    /\ (execs # <<>> /\ ~execs[Len(execs)].ok) => insPc = "done"

\* the second of three events failed: the first stays executed, the third is
\* never executed
C28_Witness ==
    /\ insPc = "done"
    /\ Len(insEvents) = 3
    /\ Len(execs) = 2
    /\ execs[1].ok /\ ~execs[2].ok
    /\ insRet[2] = "ev2"

-----------------------------------------------------------------------------
(* The process exit, checked under SpecMain                                *)

\* C26: once the storage was created, the process has not exited unless
\* storage.Close() ran and the worker made its final flush and closed
\* batchDone.
C26_CloseOnEveryExit ==
    (mainPc = "exited" /\ created) => (closeRan /\ batchDone /\ buffer = <<>>)

====
